---------------------------- MODULE Spec2Model ----------------------------
(***************************************************************************)
(* A model of src/metrics.py: the metric computation engine that turns a   *)
(* ground-truth / decompiler comparison object into grouped scalar         *)
(* metrics.  Python functions are operators with the source's names.  A    *)
(* function that reads or fills the lru_cache takes the interpreter state  *)
(* st = [heap, memo, amemo, upcalls] and returns [v |-> value, st |-> st]. *)
(***************************************************************************)
EXTENDS Integers, Sequences, FiniteSets, TLC

VARIABLES
    heap,     \* the comparison objects alive, by identity (index)
    memo,     \* lru_cache of select_comparable_varnode_compare_records
    amemo,    \* lru_cache of array_comparisons
    upcalls,  \* how often each upstream selection has been invoked
    groups,   \* the registry: the MetricsGroup objects that exist
    out       \* the last call made and what it returned or raised

vars == <<heap, memo, amemo, upcalls, groups, out>>

----------------------------------------------------------------------------
(* Bounds of the model.                                                    *)

MaxRecs == 2
MaxFns == 2
MaxObjects == 3
MaxPairs == 1
MaxMetrics == 3
MaxGroups == 2
MaxLevels == 3
MaxStart == 7
MaxFlipRecs == 1
MaxFlipFns == 1
MaxExtra == 1
MaxDen == 3
MaxScenarioFns == 5

----------------------------------------------------------------------------
(* Python values: int and float as exact rationals n/d (d > 0, lowest      *)
(* terms, so that == is value equality as in Python), None, lists, and a   *)
(* raised exception.                                                       *)

RECURSIVE GCD(_, _)
GCD(a, b) == IF b = 0 THEN a ELSE GCD(b, a % b)

Abs(x) == IF x < 0 THEN -x ELSE x

Num(x) == [tag |-> "num", n |-> x, d |-> 1]

Rat(a, b) ==
    LET s == IF b < 0 THEN -1 ELSE 1
        g == GCD(Abs(a), Abs(b))
    IN  [tag |-> "num", n |-> (s * a) \div g, d |-> (s * b) \div g]

None == [tag |-> "none"]

Raise(e) == [tag |-> "raise", exc |-> e]

List(s) == [tag |-> "list", items |-> s]

IsNum(x) == x.tag = "num"
IsNone(x) == x.tag = "none"
IsRaise(x) == x.tag = "raise"

\* x / y of Python numbers (true division)
Div(x, y) ==
    IF IsRaise(x) THEN x
    ELSE IF IsRaise(y) THEN y
    ELSE IF ~IsNum(x) \/ ~IsNum(y) THEN Raise("TypeError")
    ELSE IF y.n = 0 THEN Raise("ZeroDivisionError")
    ELSE Rat(x.n * y.d, x.d * y.n)

Add(x, y) ==
    IF IsRaise(x) THEN x
    ELSE IF IsRaise(y) THEN y
    ELSE IF ~IsNum(x) \/ ~IsNum(y) THEN Raise("TypeError")
    ELSE Rat(x.n * y.d + y.n * x.d, x.d * y.d)

Sub(x, y) ==
    IF IsRaise(x) THEN x
    ELSE IF IsRaise(y) THEN y
    ELSE IF ~IsNum(x) \/ ~IsNum(y) THEN Raise("TypeError")
    ELSE Rat(x.n * y.d - y.n * x.d, x.d * y.d)

\* x <= y of two numbers
Le(x, y) == x.n * y.d <= y.n * x.d

RECURSIVE SumSeq(_)
SumSeq(s) == IF s = <<>> THEN Num(0) ELSE Add(Head(s), SumSeq(Tail(s)))

\* sum() of a list of ints
sum(s) == SumSeq([i \in DOMAIN s |-> Num(s[i])])

\* min((a, b)) and max((a, b)) of two ints
min(a, b) == IF b < a THEN b ELSE a
max(a, b) == IF b > a THEN b ELSE a

\* statistics.mean of a list of numbers
mean(s) ==
    IF s = <<>> THEN Raise("StatisticsError")
    ELSE Div(SumSeq(s), Num(Len(s)))

\* [ f(x) for x in s if cond(x) ]
Filter(s, cond(_)) == SelectSeq(s, cond)
Map(s, f(_)) == [i \in DOMAIN s |-> f(s[i])]

----------------------------------------------------------------------------
(* The comparison engine's objects, as this module reads them.             *)

MetaTypes == <<"INT", "FLOAT", "POINTER", "ARRAY", "STRUCT", "UNION">>

\* VarnodeCompareLevel.range(): NO_MATCH = 0 up to the exact match
VarnodeCompareLevel_range == [start |-> 0, stop |-> MaxLevels, step |-> 1]
\* DataTypeCompareLevel.range()
DataTypeCompareLevel_range == [start |-> 0, stop |-> MaxLevels, step |-> 1]

NO_MATCH == VarnodeCompareLevel_range.start

\* list(range(...))
RangeSeq(r) == [i \in 1..((r.stop - r.start + r.step - 1) \div r.step) |->
                    r.start + (i - 1) * r.step]
RangeSet(r) == {RangeSeq(r)[i] : i \in DOMAIN RangeSeq(r)}

NoVar == [present |-> FALSE, is_param |-> FALSE, is_single_loc |-> TRUE]
Var(p, s) == [present |-> TRUE, is_param |-> p, is_single_loc |-> s]

\* a Varnode: size, datatype (metatype; for arrays the element count, the
\* number of dimensions), address type, parent variable
Varnode(size, metatype, addrtype, var, n, dims) ==
    [size |-> size, metatype |-> metatype, addrtype |-> addrtype, var |-> var,
     num_elements |-> n, dims |-> dims]

Scalar(size, metatype, addrtype, var) == Varnode(size, metatype, addrtype, var, 0, 0)

\* a VarnodeCompareRecord
Record(varnode, overlap, level, comparisons) ==
    [varnode |-> varnode, overlap |-> overlap, level |-> level,
     comparisons |-> comparisons]

\* a FunctionCompareRecord
FnRecord(fn, matched) == [fn |-> fn, is_comparison |-> matched]

\* what the comparison derives for one orientation
View(fns, vrecs, precs) == [fns |-> fns, vrecs |-> vrecs, precs |-> precs]

EmptyView == View(<<>>, <<>>, <<>>)

\* an UnoptimizedProgramInfoCompare2: the records derived with the ground
\* truth on the left (fwd) and with the sides swapped (bwd); flip_of records
\* which object it was flipped from (0: built by the comparison engine)
Comparison(fwd, bwd) == [fwd |-> fwd, bwd |-> bwd, flip_of |-> 0]

\* cmp.flip(): a new comparison object with left and right swapped
flip(st, cmp) ==
    LET c == st.heap[cmp]
    IN  [v |-> Len(st.heap) + 1,
         st |-> [st EXCEPT !.heap =
                    Append(@, [fwd |-> c.bwd, bwd |-> c.fwd, flip_of |-> cmp])]]

\* cmp.select_function_compare_records()
select_function_compare_records(st, cmp) == st.heap[cmp].fwd.fns

\* cmp.get_left().get_unoptimized_functions().values()
get_left_functions(st, cmp) == Map(st.heap[cmp].fwd.fns, LAMBDA r : r.fn)

\* cmp.get_right().get_unoptimized_functions().values()
get_right_functions(st, cmp) == Map(st.heap[cmp].bwd.fns, LAMBDA r : r.fn)

\* cmp.select_varnode_compare_records(varnode_cmp_record_cond=cond)
select_varnode_compare_records(st, cmp, cond(_)) ==
    Filter(st.heap[cmp].fwd.vrecs, cond)

\* cmp.select_primitive_varnode_compare_records(varnode_cmp_record_cond=cond)
select_primitive_varnode_compare_records(st, cmp, cond(_)) ==
    Filter(st.heap[cmp].fwd.precs, cond)

----------------------------------------------------------------------------
(* Filter predicates.                                                      *)

variable_base_filter(var) == ~var.is_param /\ var.is_single_loc

varnode_base_filter(varnode) ==
    /\ varnode.addrtype \in {"ABSOLUTE", "STACK"}
    /\ IF varnode.var.present THEN variable_base_filter(varnode.var) ELSE TRUE

varnode_compare_record_base_filter(record) == varnode_base_filter(record.varnode)

----------------------------------------------------------------------------
(* Selection layer.  lru_cache keys a call by its positional and keyword   *)
(* arguments as written at the call site: f(cmp) and f(cmp, primitive=p)   *)
(* are different keys.  The comparison is keyed by object identity.        *)

Positional == "cmp"
Keyword(primitive) == IF primitive THEN "cmp,primitive=True" ELSE "cmp,primitive=False"

CacheKey(cmp, form) == [cmp |-> cmp, form |-> form]

Granularity(form) == IF form = Keyword(TRUE) THEN "primitive" ELSE "whole"

CountCall(st, cmp, sel) ==
    LET k == <<cmp, sel>>
    IN  IF k \in DOMAIN st.upcalls
        THEN [st.upcalls EXCEPT ![k] = @ + 1]
        ELSE (k :> 1) @@ st.upcalls

\* a function's return value together with the interpreter state it leaves,
\* and the sequencing of two calls
Ret(v, st) == [v |-> v, st |-> st]
Bind(r, K(_, _)) == K(r.v, r.st)

upstream_select(st, cmp, form) ==
    IF form = Keyword(TRUE)
    THEN select_primitive_varnode_compare_records(
             st, cmp, varnode_compare_record_base_filter)
    ELSE select_varnode_compare_records(st, cmp, varnode_compare_record_base_filter)

Store(st, key, r, sel) ==
    [st EXCEPT !.memo = (key :> r) @@ @, !.upcalls = CountCall(st, key.cmp, sel)]

select_comparable_varnode_compare_records_anyform(st, cmp, form) ==
    IF \E k \in DOMAIN st.memo : k.cmp = cmp
    THEN Ret(st.memo[CHOOSE k \in DOMAIN st.memo : k.cmp = cmp], st)
    ELSE Ret(upstream_select(st, cmp, form),
             Store(st, CacheKey(cmp, form), upstream_select(st, cmp, form),
                   Granularity(form)))

select_comparable_varnode_compare_records(st, cmp, form) ==
    IF CacheKey(cmp, form) \in DOMAIN st.memo
    THEN Ret(st.memo[CacheKey(cmp, form)], st)
    ELSE Ret(upstream_select(st, cmp, form),
             Store(st, CacheKey(cmp, form), upstream_select(st, cmp, form),
                   Granularity(form)))

select_comparable_varnodes(st, cmp, left, primitive) ==
    Bind(IF left THEN Ret(cmp, st) ELSE flip(st, cmp), LAMBDA _cmp, st1 :
    Bind(select_comparable_varnode_compare_records(st1, _cmp, Keyword(primitive)),
         LAMBDA s, st2 :
    Ret(Map(s, LAMBDA record : record.varnode), st2)))

varnodes_truth(st, cmp, primitive) == select_comparable_varnodes(st, cmp, TRUE, primitive)

varnodes_decomp(st, cmp, primitive) == select_comparable_varnodes(st, cmp, FALSE, primitive)

----------------------------------------------------------------------------
(* Bytes.                                                                  *)

bytes_truth(st, cmp) ==
    Bind(varnodes_truth(st, cmp, FALSE), LAMBDA t, st1 :
    Ret(sum(Map(t, LAMBDA varnode : varnode.size)), st1))

bytes_decomp(st, cmp) ==
    Bind(varnodes_decomp(st, cmp, FALSE), LAMBDA t, st1 :
    Ret(sum(Map(t, LAMBDA varnode : varnode.size)), st1))

bytes_found_unclamped(st, cmp) ==
    Bind(select_comparable_varnode_compare_records(st, cmp, Positional), LAMBDA s, st1 :
    Bind(bytes_truth(st1, cmp), LAMBDA t, st2 :
    Ret(sum(Map(s, LAMBDA record : record.overlap)), st2)))

bytes_found_max(st, cmp) ==
    Bind(select_comparable_varnode_compare_records(st, cmp, Positional), LAMBDA s, st1 :
    Bind(bytes_truth(st1, cmp), LAMBDA t, st2 :
    Ret(Num(max(sum(Map(s, LAMBDA record : record.overlap)).n, t.n)), st2)))

bytes_found(st, cmp) ==
    Bind(select_comparable_varnode_compare_records(st, cmp, Positional), LAMBDA s, st1 :
    Bind(bytes_truth(st1, cmp), LAMBDA t, st2 :
    Ret(Num(min(sum(Map(s, LAMBDA record : record.overlap)).n, t.n)), st2)))

bytes_missed(st, cmp) ==
    Bind(bytes_truth(st, cmp), LAMBDA t, st1 :
    Bind(bytes_found(st1, cmp), LAMBDA f, st2 :
    Ret(Num(max(t.n - f.n, 0)), st2)))

bytes_extraneous(st, cmp) ==
    Bind(bytes_decomp(st, cmp), LAMBDA d, st1 :
    Bind(bytes_found(st1, cmp), LAMBDA f, st2 :
    Ret(Sub(d, f), st2)))

----------------------------------------------------------------------------
(* Functions.                                                              *)

functions_truth(st, cmp) == Ret(get_left_functions(st, cmp), st)

functions_decomp(st, cmp) == Ret(get_right_functions(st, cmp), st)

functions_found(st, cmp) ==
    Ret(Map(Filter(select_function_compare_records(st, cmp),
                   LAMBDA record : record.is_comparison),
            LAMBDA record : record.fn),
        st)

functions_missed_unfiltered(st, cmp) ==
    Ret(Map(select_function_compare_records(st, cmp), LAMBDA record : record.fn), st)

functions_missed(st, cmp) ==
    Ret(Map(Filter(select_function_compare_records(st, cmp),
                   LAMBDA record : ~record.is_comparison),
            LAMBDA record : record.fn),
        st)

functions_extraneous_noflip(st, cmp) == functions_missed(st, cmp)

\* the flipped comparison is a temporary: nothing keeps it once the call returns
functions_extraneous(st, cmp) ==
    Bind(flip(st, cmp), LAMBDA _cmp, st1 :
    Bind(functions_missed(st1, _cmp), LAMBDA m, st2 :
    Ret(m, st)))

----------------------------------------------------------------------------
(* High-level varnodes.                                                    *)

_varnode_compare_records_match_levels(varnode_cmp_records, levels) ==
    Filter(varnode_cmp_records, LAMBDA record : record.level \in levels)

_varnode_compare_records_matched_at_above_level(varnode_cmp_records, level) ==
    Filter(varnode_cmp_records, LAMBDA record : record.level >= level)

_varnode_compare_records_matched_at_level_or_above(varnode_cmp_records, level) ==
    Filter(varnode_cmp_records, LAMBDA record : record.level >= level)

_varnode_compare_records_matched_at_level(varnode_cmp_records, level) ==
    Filter(varnode_cmp_records, LAMBDA record : record.level = level)

varnode_compare_records_match_levels(st, cmp, levels, primitive) ==
    Bind(select_comparable_varnode_compare_records(st, cmp, Keyword(primitive)),
         LAMBDA s, st1 :
    Ret(_varnode_compare_records_match_levels(s, levels), st1))

varnode_compare_records_matched_at_above_level(st, cmp, level, primitive) ==
    Bind(select_comparable_varnode_compare_records(st, cmp, Keyword(primitive)),
         LAMBDA s, st1 :
    Ret(_varnode_compare_records_matched_at_above_level(s, level), st1))

varnode_compare_records_matched_at_level(st, cmp, level, primitive) ==
    Bind(select_comparable_varnode_compare_records(st, cmp, Keyword(primitive)),
         LAMBDA s, st1 :
    Ret(_varnode_compare_records_matched_at_level(s, level), st1))

varnodes_missed(st, cmp, primitive) ==
    Bind(varnode_compare_records_match_levels(st, cmp, {NO_MATCH}, primitive),
         LAMBDA m, st1 :
    Ret(Map(m, LAMBDA record : record.varnode), st1))

\* the flipped comparison stays alive: it is a key of the lru_cache
varnodes_extraneous(st, cmp, primitive) ==
    Bind(flip(st, cmp), LAMBDA _cmp, st1 :
    varnodes_missed(st1, _cmp, primitive))

_varnodes_avg_compare_level_unguarded(varnode_cmp_records) ==
    mean(Map(varnode_cmp_records, LAMBDA record : Num(record.level)))

_varnodes_avg_compare_level(varnode_cmp_records) ==
    IF Len(Map(varnode_cmp_records, LAMBDA record : Num(record.level))) > 0
    THEN mean(Map(varnode_cmp_records, LAMBDA record : Num(record.level)))
    ELSE None

normalize_range_nostep(r, x) ==
    IF IsNone(x) THEN None
    ELSE Div(Sub(x, Num(r.start)), Num(r.stop - r.start))

\* normalize_range(r)(x)
normalize_range(r, x) ==
    IF IsNone(x) THEN None
    ELSE Div(Sub(x, Num(r.start)), Num(r.stop - r.step - r.start))

varnode_compare_level_to_normalized_score(lvl) ==
    normalize_range(VarnodeCompareLevel_range, lvl)

datatype_compare_level_to_normalized_score(lvl) ==
    normalize_range(DataTypeCompareLevel_range, lvl)

varnodes_avg_compare_level(st, cmp, primitive) ==
    Bind(select_comparable_varnode_compare_records(st, cmp, Keyword(primitive)),
         LAMBDA s, st1 :
    Ret(_varnodes_avg_compare_level(s), st1))

varnodes_avg_compare_score(st, cmp, primitive) ==
    Bind(varnodes_avg_compare_level(st, cmp, primitive), LAMBDA a, st1 :
    Ret(varnode_compare_level_to_normalized_score(a), st1))

----------------------------------------------------------------------------
(* Type-specific varnode comparisons.                                      *)

_select_comparable_varnodes_metatype(st, cmp, metatype, left, primitive) ==
    Bind(select_comparable_varnodes(st, cmp, left, primitive), LAMBDA s, st1 :
    Ret(Filter(s, LAMBDA varnode : varnode.metatype = metatype), st1))

_select_comparable_varnode_compare_records_metatype(st, cmp, metatype, primitive) ==
    Bind(select_comparable_varnode_compare_records(st, cmp, Keyword(primitive)),
         LAMBDA s, st1 :
    Ret(Filter(s, LAMBDA record : record.varnode.metatype = metatype), st1))

varnodes_truth_metatype(st, cmp, metatype, primitive) ==
    _select_comparable_varnodes_metatype(st, cmp, metatype, TRUE, primitive)

varnodes_decomp_metatype(st, cmp, metatype, primitive) ==
    _select_comparable_varnodes_metatype(st, cmp, metatype, FALSE, primitive)

varnodes_avg_compare_level_metatype(st, cmp, metatype, primitive) ==
    Bind(_select_comparable_varnode_compare_records_metatype(st, cmp, metatype, primitive),
         LAMBDA s, st1 :
    Ret(_varnodes_avg_compare_level(s), st1))

varnodes_avg_compare_score_metatype(st, cmp, metatype, primitive) ==
    Bind(varnodes_avg_compare_level_metatype(st, cmp, metatype, primitive),
         LAMBDA a, st1 :
    Ret(varnode_compare_level_to_normalized_score(a), st1))

----------------------------------------------------------------------------
(* Arrays.                                                                 *)

\* one entry of record.get_comparisons(): the decompiler varnode compared with
\* the record's varnode, and the compare level of the two element datatypes
Pair(right, base_level) == [right |-> right, base_level |-> base_level]

\* a VarnodeCompare2
VarnodeCompare2(left, pair) ==
    [left |-> left, right |-> pair.right, base_level |-> pair.base_level]

get_comparisons(record) ==
    Map(record.comparisons, LAMBDA pair : VarnodeCompare2(record.varnode, pair))

RECURSIVE Flatten(_)
Flatten(ss) == IF ss = <<>> THEN <<>> ELSE Head(ss) \o Flatten(Tail(ss))

\* cmp.select_varnode_comparisons(varnode_cmp_record_cond=c1, varnode_cmp2_cond=c2)
select_varnode_comparisons(st, cmp, c1(_), c2(_)) ==
    Flatten(Map(Filter(st.heap[cmp].fwd.vrecs, c1),
                LAMBDA record : Filter(get_comparisons(record), c2)))

upstream_array_comparisons(st, cmp) ==
    select_varnode_comparisons(st, cmp,
        varnode_compare_record_base_filter,
        LAMBDA record : /\ record.left.metatype = "ARRAY"
                        /\ record.right.metatype = "ARRAY")

array_comparisons(st, cmp) ==
    IF cmp \in DOMAIN st.amemo
    THEN Ret(st.amemo[cmp], st)
    ELSE Ret(upstream_array_comparisons(st, cmp),
             [st EXCEPT !.amemo = (cmp :> upstream_array_comparisons(st, cmp)) @@ @,
                        !.upcalls = CountCall(st, cmp, "array")])

\* stat([ f(cmp2) for cmp2 in cmps ]) if cmps else None, with stat = mean
_summarize_array_comparisons(cmps, f(_)) ==
    IF cmps # <<>> THEN mean(Map(cmps, f)) ELSE None

mean_over_array_comparisons(st, cmp, f(_)) ==
    Bind(array_comparisons(st, cmp), LAMBDA a, st1 :
    Ret(_summarize_array_comparisons(a, f), st1))

array_varnode_compare_records_truth(st, cmp) ==
    Bind(select_comparable_varnode_compare_records(st, cmp, Positional), LAMBDA s, st1 :
    Ret(Filter(s, LAMBDA record : record.varnode.metatype = "ARRAY"), st1))

array_varnode_compare_records_inferred(st, cmp) ==
    Bind(array_varnode_compare_records_truth(st, cmp), LAMBDA t, st1 :
    Ret(Filter(t, LAMBDA record :
            \E i \in DOMAIN record.comparisons :
                get_comparisons(record)[i].right.metatype = "ARRAY"),
        st1))

array_elements_diff(cmp2) == cmp2.left.num_elements - cmp2.right.num_elements

array_elements_error_signed(cmp2) == Num(array_elements_diff(cmp2))

array_elements_error(cmp2) == Num(Abs(array_elements_diff(cmp2)))

array_elements_error_ratio(cmp2) ==
    Div(array_elements_error(cmp2), Num(cmp2.left.num_elements))

array_size_diff(cmp2) == cmp2.left.size - cmp2.right.size

array_size_error(cmp2) == Num(Abs(array_size_diff(cmp2)))

array_size_error_ratio(cmp2) == Div(array_size_error(cmp2), Num(cmp2.left.size))

\* DataTypeCompare2(left_subtype, right_subtype, 0).get_compare_level() of each
_subtype_comparisons(cmps) == Map(cmps, LAMBDA cmp2 : cmp2.base_level)

_array_subtype_match_ratio(cmps, level) ==
    Div(Num(Len(Filter(_subtype_comparisons(cmps), LAMBDA l : l >= level))),
        Num(Len(cmps)))

array_subtype_match_ratio(st, cmp, level) ==
    Bind(array_comparisons(st, cmp), LAMBDA a, st1 :
    Ret(_array_subtype_match_ratio(a, level), st1))

_array_subtype_avg_compare_level(cmps) ==
    IF cmps # <<>>
    THEN mean(Map(_subtype_comparisons(cmps), LAMBDA l : Num(l)))
    ELSE None

array_subtype_avg_compare_level(st, cmp) ==
    Bind(array_comparisons(st, cmp), LAMBDA a, st1 :
    Ret(_array_subtype_avg_compare_level(a), st1))

_array_subtype_avg_compare_score(cmps) ==
    datatype_compare_level_to_normalized_score(_array_subtype_avg_compare_level(cmps))

array_subtype_avg_compare_score(st, cmp) ==
    Bind(array_comparisons(st, cmp), LAMBDA a, st1 :
    Ret(_array_subtype_avg_compare_score(a), st1))

_array_dimension_match_ratio(cmps) ==
    IF Len(cmps) > 0
    THEN Div(Num(Len(Filter(cmps, LAMBDA cmp2 : cmp2.left.dims = cmp2.right.dims))),
             Num(Len(cmps)))
    ELSE None

array_dimension_match_ratio(st, cmp) ==
    Bind(array_comparisons(st, cmp), LAMBDA a, st1 :
    Ret(_array_dimension_match_ratio(a), st1))

----------------------------------------------------------------------------
(* Metric and MetricsGroup.  A compute function is named by the def or the *)
(* lambda (by its line in metrics.py) that creates it, together with the   *)
(* values its default arguments captured when it was created.  A Metric    *)
(* object's identity is the group and position it was constructed for.     *)

NoLevel == 0 - 1
NoMetaType == ""

Fn(name) == [fn |-> name, level |-> NoLevel, metatype |-> NoMetaType]
Lambda(name, level, metatype) == [fn |-> name, level |-> level, metatype |-> metatype]

\* Metric.__init__
Metric(id, display_name, compute) ==
    [id |-> id, display_name |-> display_name, compute |-> compute]

\* hash() of a function object: a function of the object's identity
hash_function(compute) == compute

\* Metric.__hash__
Metric_hash(metric) == hash_function(metric.compute)

\* Metric defines no __eq__: object.__eq__ compares identities
Metric_eq(m1, m2) == m1.id = m2.id

\* MetricsGroup.__init__ (metrics=None): a new group object
MetricsGroup(gs, name, display_name) ==
    Append(gs, [name |-> name, display_name |-> display_name, metrics |-> <<>>])

\* MetricsGroup.add_metric
add_metric(gs, g, metric) == [gs EXCEPT ![g].metrics = Append(@, metric)]

\* MetricsGroup.mk_add_metric
mk_add_metric(gs, g, display_name, compute) ==
    [gs EXCEPT ![g].metrics =
        Append(@, Metric(<<g, Len(@) + 1>>, display_name, compute))]

\* consecutive mk_add_metric calls on the newest group
RECURSIVE mk_add_metrics(_, _)
mk_add_metrics(gs, entries) ==
    IF entries = <<>> THEN gs
    ELSE mk_add_metrics(
             mk_add_metric(gs, Len(gs), Head(entries)[1], Head(entries)[2]),
             Tail(entries))

LevelMetrics_latebound(prefix, name, metatype) ==
    LET levels == RangeSeq(VarnodeCompareLevel_range)
    IN  [i \in DOMAIN levels |->
            <<prefix \o ToString(levels[i]),
              Lambda(name, levels[Len(levels)], metatype)>>]

\* for compare_level in VarnodeCompareLevel.range(): mk_add_metric(...)
LevelMetrics(prefix, name, metatype) ==
    LET levels == RangeSeq(VarnodeCompareLevel_range)
    IN  [i \in DOMAIN levels |->
            <<prefix \o ToString(levels[i]), Lambda(name, levels[i], metatype)>>]

BytesGroup(gs) ==
    mk_add_metrics(MetricsGroup(gs, "bytes", "Data bytes recovery"),
        << <<"Ground truth data bytes", Fn("bytes_truth")>>,
           <<"Bytes found", Fn("bytes_found")>>,
           <<"Bytes missed", Fn("bytes_missed")>>,
           <<"Bytes recovery fraction", Fn("lambda@115")>> >>)

FunctionsGroup(gs) ==
    mk_add_metrics(MetricsGroup(gs, "functions", "Function recovery"),
        << <<"Ground truth functions", Fn("lambda@123")>>,
           <<"Functions found", Fn("lambda@128")>>,
           <<"Functions missed", Fn("lambda@133")>>,
           <<"Functions recovery fraction", Fn("lambda@138")>> >>)

VarnodesGroup(gs) ==
    mk_add_metrics(MetricsGroup(gs, "varnodes", "Varnode recovery"),
        << <<"Ground truth varnodes", Fn("lambda@146")>> >>
        \o LevelMetrics("Varnodes matched @ level ", "lambda@153", NoMetaType)
        \o << <<"Varnode average comparison score", Fn("varnodes_avg_compare_score")>> >>)

MetatypeGroup(gs, metatype) ==
    mk_add_metrics(
        MetricsGroup(gs, "varnodes_metatype_" \o metatype,
                     "Varnode recovery (metatype = " \o metatype \o ")"),
        << <<"Ground truth varnodes", Lambda("lambda@172", NoLevel, metatype)>> >>
        \o LevelMetrics("Decompiler varnodes matched @ level ", "lambda@179", metatype)
        \o << <<"Varnode average compare score", Lambda("lambda@188", NoLevel, metatype)>> >>)

PrimitiveVarnodesGroup(gs) ==
    mk_add_metrics(MetricsGroup(gs, "varnodes_decomposed", "Decomposed varnode recovery"),
        << <<"Ground truth varnodes", Fn("lambda@197")>> >>
        \o LevelMetrics("Varnodes matched @ level ", "lambda@204", NoMetaType)
        \o << <<"Varnode average comparison score", Fn("lambda@209")>> >>)

PrimitiveMetatypeGroup(gs, metatype) ==
    mk_add_metrics(
        MetricsGroup(gs, "varnodes_decomposed_metatype_" \o metatype,
                     "Decomposed varnode recovery"),
        << <<"Ground truth varnodes", Lambda("lambda@223", NoLevel, metatype)>> >>
        \o LevelMetrics("Varnodes matched @ level ", "lambda@230", metatype)
        \o << <<"Varnode average compare score", Lambda("lambda@239", NoLevel, metatype)>> >>)

ArrayGroup(gs) ==
    mk_add_metrics(MetricsGroup(gs, "array_comparisons", "Array recovery"),
        << <<"Ground truth array varnodes", Fn("lambda@247")>>,
           <<"Array comparisons", Fn("lambda@252")>>,
           <<"Array varnodes inferred as array", Fn("lambda@257")>>,
           <<"Array varnodes inferred as array fraction", Fn("lambda@262")>>,
           <<"Array length (elements) average error", Fn("lambda@267")>>,
           <<"Array length (elements) average error ratio", Fn("lambda@272")>>,
           <<"Array size (bytes) average error", Fn("lambda@277")>>,
           <<"Array size (bytes) average error ratio", Fn("lambda@282")>>,
           <<"Array dimension match score", Fn("array_dimension_match_ratio")>>,
           <<"Array average element type comparison score",
             Fn("array_subtype_avg_compare_score")>> >>)

\* for metatype in [...]: one group each
RECURSIVE MetatypeGroups(_, _)
MetatypeGroups(gs, metatypes) ==
    IF metatypes = <<>> THEN gs
    ELSE MetatypeGroups(MetatypeGroup(gs, Head(metatypes)), Tail(metatypes))

RECURSIVE PrimitiveMetatypeGroups(_, _)
PrimitiveMetatypeGroups(gs, metatypes) ==
    IF metatypes = <<>> THEN gs
    ELSE PrimitiveMetatypeGroups(PrimitiveMetatypeGroup(gs, Head(metatypes)),
                                 Tail(metatypes))

make_metrics ==
    ArrayGroup(
      PrimitiveMetatypeGroups(
        PrimitiveVarnodesGroup(
          MetatypeGroups(
            VarnodesGroup(FunctionsGroup(BytesGroup(<<>>))),
            MetaTypes)),
        <<"INT", "FLOAT", "POINTER">>))

----------------------------------------------------------------------------
(* Calling a compute function: compute(cmp).                               *)

len(r) == Ret(Num(Len(r.v)), r.st)

\* lambda cmp: bytes_found(cmp) / bytes_truth(cmp)
bytes_recovery_fraction(st, cmp) ==
    Bind(bytes_found(st, cmp), LAMBDA f, st1 :
    Bind(bytes_truth(st1, cmp), LAMBDA t, st2 :
    Ret(Div(f, t), st2)))

\* lambda cmp: len(functions_found(cmp)) / len(functions_truth(cmp))
functions_recovery_fraction(st, cmp) ==
    Bind(len(functions_found(st, cmp)), LAMBDA f, st1 :
    Bind(len(functions_truth(st1, cmp)), LAMBDA t, st2 :
    Ret(Div(f, t), st2)))

\* lambda cmp, metatype, compare_level: len([record for record in
\*     varnode_compare_records_matched_at_level(cmp, compare_level, primitive=...)
\*     if record.get_varnode().get_datatype().get_metatype() == metatype])
matched_at_level_metatype(st, cmp, level, metatype, primitive) ==
    Bind(varnode_compare_records_matched_at_level(st, cmp, level, primitive),
         LAMBDA m, st1 :
    Ret(Num(Len(Filter(m, LAMBDA record : record.varnode.metatype = metatype))), st1))

\* lambda cmp: len(array_varnode_compare_records_inferred(cmp))
\*             / len(array_varnode_compare_records_truth(cmp))
array_inferred_fraction(st, cmp) ==
    Bind(len(array_varnode_compare_records_inferred(st, cmp)), LAMBDA i, st1 :
    Bind(len(array_varnode_compare_records_truth(st1, cmp)), LAMBDA t, st2 :
    Ret(Div(i, t), st2)))

AsList(r) == Ret(List(r.v), r.st)

Apply(c, st, cmp) ==
    CASE c.fn = "bytes_truth" -> bytes_truth(st, cmp)
      [] c.fn = "bytes_found" -> bytes_found(st, cmp)
      [] c.fn = "bytes_missed" -> bytes_missed(st, cmp)
      [] c.fn = "lambda@115" -> bytes_recovery_fraction(st, cmp)
      [] c.fn = "lambda@123" -> len(functions_truth(st, cmp))
      [] c.fn = "lambda@128" -> len(functions_found(st, cmp))
      [] c.fn = "lambda@133" -> len(functions_missed(st, cmp))
      [] c.fn = "lambda@138" -> functions_recovery_fraction(st, cmp)
      [] c.fn = "lambda@146" -> len(varnodes_truth(st, cmp, FALSE))
      [] c.fn = "lambda@153" ->
            len(varnode_compare_records_matched_at_level(st, cmp, c.level, FALSE))
      [] c.fn = "varnodes_avg_compare_score" -> varnodes_avg_compare_score(st, cmp, FALSE)
      [] c.fn = "lambda@172" -> len(varnodes_truth_metatype(st, cmp, c.metatype, FALSE))
      [] c.fn = "lambda@179" ->
            matched_at_level_metatype(st, cmp, c.level, c.metatype, FALSE)
      [] c.fn = "lambda@188" ->
            varnodes_avg_compare_score_metatype(st, cmp, c.metatype, FALSE)
      [] c.fn = "lambda@197" -> len(varnodes_truth(st, cmp, TRUE))
      [] c.fn = "lambda@204" ->
            len(varnode_compare_records_matched_at_level(st, cmp, c.level, TRUE))
      [] c.fn = "lambda@209" -> varnodes_avg_compare_score(st, cmp, TRUE)
      [] c.fn = "lambda@223" -> len(varnodes_truth_metatype(st, cmp, c.metatype, TRUE))
      [] c.fn = "lambda@230" ->
            matched_at_level_metatype(st, cmp, c.level, c.metatype, TRUE)
      [] c.fn = "lambda@239" ->
            varnodes_avg_compare_score_metatype(st, cmp, c.metatype, TRUE)
      [] c.fn = "lambda@247" -> len(array_varnode_compare_records_truth(st, cmp))
      [] c.fn = "lambda@252" -> len(array_comparisons(st, cmp))
      [] c.fn = "lambda@257" -> len(array_varnode_compare_records_inferred(st, cmp))
      [] c.fn = "lambda@262" -> array_inferred_fraction(st, cmp)
      [] c.fn = "lambda@267" -> mean_over_array_comparisons(st, cmp, array_elements_error)
      [] c.fn = "lambda@272" ->
            mean_over_array_comparisons(st, cmp, array_elements_error_ratio)
      [] c.fn = "lambda@277" -> mean_over_array_comparisons(st, cmp, array_size_error)
      [] c.fn = "lambda@282" -> mean_over_array_comparisons(st, cmp, array_size_error_ratio)
      [] c.fn = "array_dimension_match_ratio" -> array_dimension_match_ratio(st, cmp)
      [] c.fn = "array_subtype_avg_compare_score" ->
            array_subtype_avg_compare_score(st, cmp)
      [] c.fn = "functions_truth" -> AsList(functions_truth(st, cmp))
      [] c.fn = "functions_found" -> AsList(functions_found(st, cmp))
      [] c.fn = "functions_missed" -> AsList(functions_missed(st, cmp))
      [] c.fn = "functions_extraneous" -> AsList(functions_extraneous(st, cmp))
      [] c.fn = "varnodes_missed" -> AsList(varnodes_missed(st, cmp, FALSE))
      [] c.fn = "varnodes_missed(primitive=True)" -> AsList(varnodes_missed(st, cmp, TRUE))
      [] c.fn = "varnodes_extraneous" -> AsList(varnodes_extraneous(st, cmp, FALSE))
      [] c.fn = "varnodes_extraneous(primitive=True)" ->
            AsList(varnodes_extraneous(st, cmp, TRUE))

\* Metric.__call__
Metric_call(metric, st, cmp) == Apply(metric.compute, st, cmp)

\* MetricsGroup.compute_results: [ metric(cmp) for metric in self.metrics ];
\* an exception raised by a metric ends the comprehension and propagates
RECURSIVE compute_results_from(_, _, _, _)
compute_results_from(metrics, st, cmp, acc) ==
    IF metrics = <<>> THEN Ret(List(acc), st)
    ELSE Bind(Metric_call(Head(metrics), st, cmp), LAMBDA v, st1 :
         IF IsRaise(v) THEN Ret(v, st1)
         ELSE compute_results_from(Tail(metrics), st1, cmp, Append(acc, v)))

compute_results_reversed(group, st, cmp) ==
    compute_results_from([i \in DOMAIN group.metrics |->
                             group.metrics[Len(group.metrics) + 1 - i]],
                         st, cmp, <<>>)

compute_results(group, st, cmp) == compute_results_from(group.metrics, st, cmp, <<>>)

----------------------------------------------------------------------------
(* The state machine.                                                      *)

St == [heap |-> heap, memo |-> memo, amemo |-> amemo, upcalls |-> upcalls]

Commit(st) ==
    /\ heap' = st.heap
    /\ memo' = st.memo
    /\ amemo' = st.amemo
    /\ upcalls' = st.upcalls

Out(op, group, index, compute, cmp, args, res) ==
    [op |-> op, group |-> group, index |-> index, compute |-> compute,
     cmp |-> cmp, args |-> args, res |-> res]

NoOut == Out("none", 0, 0, Fn(""), 0, <<>>, None)

\* the state once the comparison engine has built comparison c
InitWith(C) ==
    /\ \E c \in C : heap = <<c>>
    /\ memo = <<>>
    /\ amemo = <<>>
    /\ upcalls = <<>>
    /\ groups = <<>>
    /\ out = NoOut

\* groups = make_metrics()
MakeMetrics ==
    /\ groups = <<>>
    /\ groups' = make_metrics
    /\ out' = Out("make_metrics", 0, 0, Fn(""), 0, <<>>, None)
    /\ UNCHANGED <<heap, memo, amemo, upcalls>>

\* a call has returned (or raised): what it leaves behind
Returned(r, op, g, i, c, cmp) ==
    /\ Len(r.st.heap) <= MaxObjects
    /\ Commit(r.st)
    /\ out' = Out(op, g, i, c, cmp, <<>>, r.v)
    /\ UNCHANGED groups

\* cmp.flip() by the caller
Flip(cmp) ==
    Returned(Bind(flip(St, cmp), LAMBDA v, st1 : Ret(Num(v), st1)),
             "flip", 0, 0, Fn(""), cmp)

\* a direct call of one of the module's functions: c(cmp)
Call(c, cmp) == Returned(Apply(c, St, cmp), "call", 0, 0, c, cmp)

\* groups[g].get_metrics()[i](cmp)
MetricCall(g, i, cmp) ==
    Returned(Metric_call(groups[g].metrics[i], St, cmp),
             "metric", g, i, groups[g].metrics[i].compute, cmp)

\* groups[g].compute_results(cmp)
ComputeResults(g, cmp) ==
    Returned(compute_results(groups[g], St, cmp), "compute_results", g, 0, Fn(""), cmp)

\* normalize_range(r)(x)
Normalize(r, x) ==
    /\ out' = Out("normalize_range", 0, 0, Fn(""), 0, <<r, x>>, normalize_range(r, x))
    /\ UNCHANGED <<heap, memo, amemo, upcalls, groups>>

\* MetricsGroup(name, display_name) by the caller
NewGroup(name) ==
    /\ Len(groups) < MaxGroups
    /\ groups' = MetricsGroup(groups, name, name)
    /\ out' = Out("MetricsGroup", Len(groups) + 1, 0, Fn(""), 0, <<>>, None)
    /\ UNCHANGED <<heap, memo, amemo, upcalls>>

\* groups[g].mk_add_metric(display_name, compute)
MkAddMetric(g, display_name, compute) ==
    /\ Len(groups[g].metrics) < MaxMetrics
    /\ groups' = mk_add_metric(groups, g, display_name, compute)
    /\ out' = Out("mk_add_metric", g, Len(groups[g].metrics) + 1, compute, 0, <<>>, None)
    /\ UNCHANGED <<heap, memo, amemo, upcalls>>

\* groups[g].add_metric(metric) with a Metric object that exists
AddMetric(g, metric) ==
    /\ Len(groups[g].metrics) < MaxMetrics
    /\ groups' = add_metric(groups, g, metric)
    /\ out' = Out("add_metric", g, Len(groups[g].metrics) + 1, metric.compute, 0, <<>>, None)
    /\ UNCHANGED <<heap, memo, amemo, upcalls>>

----------------------------------------------------------------------------
(* Inputs: the comparisons the engine may hand over.                       *)

SeqsUpTo(S, n) == UNION {[1..k -> S] : k \in 0..n}

Levels == RangeSet(VarnodeCompareLevel_range)
EXACT_MATCH == VarnodeCompareLevel_range.stop - VarnodeCompareLevel_range.step

\* records that differ in size, overlapped bytes and eligibility; the overlap
\* of one record may exceed its size (several decompiler varnodes matched)
BytesRecords ==
    {Record(Scalar(size, "INT", addrtype, NoVar), overlap,
            IF overlap = 0 THEN NO_MATCH ELSE EXACT_MATCH, <<>>) :
        size \in {4, 8}, overlap \in {0, 4, 12}, addrtype \in {"STACK", "REGISTER"}}

BytesComparisons ==
    {Comparison(View(<<>>, vrecs, <<>>), EmptyView) :
        vrecs \in SeqsUpTo(BytesRecords, MaxRecs)}

----------------------------------------------------------------------------
(* Bytes: bytes_truth, bytes_found and bytes_missed on any comparison.     *)

BytesFns == {Fn("bytes_truth"), Fn("bytes_found"), Fn("bytes_missed")}

NextBytes == \E c \in BytesFns : \E cmp \in DOMAIN heap : Call(c, cmp)

SpecBytes == InitWith(BytesComparisons) /\ [][NextBytes]_vars

Called(name) == out.op = "call" /\ out.compute.fn = name

\* C1: bytes_found(c) never exceeds bytes_truth(c) and bytes_missed(c) is never
\* negative, whatever the records' overlapped-byte counts are.
C1_BytesFoundClamped ==
    /\ Called("bytes_found") => Le(out.res, bytes_truth(St, out.cmp).v)
    /\ Called("bytes_missed") => Le(Num(0), out.res)

\* bytes_found has returned for records whose overlaps sum to more than the truth
C1_Witness ==
    /\ Called("bytes_found")
    /\ bytes_found_unclamped(St, out.cmp).v.n > bytes_truth(St, out.cmp).v.n
    /\ bytes_truth(St, out.cmp).v.n > 0

----------------------------------------------------------------------------
(* Recovery fractions: the bytes and functions groups of the registry.     *)

\* the function compare records of a program with n functions, named from base
FnRecords(base, n) ==
    UNION {{[i \in 1..k |-> FnRecord(base + i, m[i])] : m \in [1..k -> BOOLEAN]} :
           k \in 0..n}

\* the decompiler's side of the same matching, with no extraneous function
Counterparts(fns) ==
    Map(Filter(fns, LAMBDA record : record.is_comparison),
        LAMBDA record : FnRecord(record.fn + 10, TRUE))

EligibleBytesRecords == {r \in BytesRecords : r.varnode.addrtype = "STACK"}

RecoveryComparisons ==
    {Comparison(View(fns, vrecs, <<>>), View(Counterparts(fns), <<>>, <<>>)) :
        fns \in FnRecords(0, MaxFns),
        vrecs \in SeqsUpTo(EligibleBytesRecords, MaxRecs)}

InGroups(names) == {g \in DOMAIN groups : groups[g].name \in names}

NextRecovery ==
    \/ MakeMetrics
    \/ \E g \in InGroups({"bytes", "functions"}) :
           \E i \in DOMAIN groups[g].metrics : \E cmp \in DOMAIN heap :
               MetricCall(g, i, cmp)

SpecRecovery == InitWith(RecoveryComparisons) /\ [][NextRecovery]_vars

\* the registry metric with this display name has been called
MetricNamed(group, display_name) ==
    /\ out.op = "metric"
    /\ groups[out.group].name = group
    /\ groups[out.group].metrics[out.index].display_name = display_name

\* C2: with a zero truth denominator the two recovery fraction metrics return an
\* explicit undefined result: they neither raise nor return 0.
C2_UndefinedFractionReturned ==
    /\ (MetricNamed("bytes", "Bytes recovery fraction")
            /\ bytes_truth(St, out.cmp).v = Num(0))
        => (~IsRaise(out.res) /\ out.res # Num(0))
    /\ (MetricNamed("functions", "Functions recovery fraction")
            /\ functions_truth(St, out.cmp).v = <<>>)
        => (~IsRaise(out.res) /\ out.res # Num(0))

\* C5: a recovery fraction with a non-zero denominator is a number in [0, 1].
C5_RecoveryFractionInUnitInterval ==
    /\ (MetricNamed("bytes", "Bytes recovery fraction")
            /\ bytes_truth(St, out.cmp).v # Num(0))
        => (IsNum(out.res) /\ Le(Num(0), out.res) /\ Le(out.res, Num(1)))
    /\ (MetricNamed("functions", "Functions recovery fraction")
            /\ functions_truth(St, out.cmp).v # <<>>)
        => (IsNum(out.res) /\ Le(Num(0), out.res) /\ Le(out.res, Num(1)))

\* the bytes fraction has been computed where the overlaps exceed the truth
C5_Witness ==
    /\ MetricNamed("bytes", "Bytes recovery fraction")
    /\ bytes_truth(St, out.cmp).v # Num(0)
    /\ bytes_found_unclamped(St, out.cmp).v.n > bytes_truth(St, out.cmp).v.n
    /\ out.res = Num(1)

----------------------------------------------------------------------------
(* Missed and extraneous: a comparison, its flip, and the flip of that.    *)

\* the primitive records of a record: a STRUCT of two INT leaves decomposes
\* into one record per leaf, an ARRAY into one per element, a scalar is its own
\* decomposition
Decompose(record) ==
    LET v == record.varnode
        n == IF v.metatype = "STRUCT" THEN 2
             ELSE IF v.metatype = "ARRAY" THEN v.num_elements ELSE 1
    IN  IF v.metatype \in {"STRUCT", "ARRAY"}
        THEN [i \in 1..n |->
                 Record(Scalar(v.size \div n, "INT", v.addrtype, v.var),
                        record.overlap \div n, record.level, <<>>)]
        ELSE <<record>>

Primitive(vrecs) == Flatten(Map(vrecs, Decompose))

FlipRecords ==
    {Record(Scalar(size, IF size = 8 THEN "STRUCT" ELSE "INT", "STACK", NoVar),
            IF level = NO_MATCH THEN 0 ELSE size, level, <<>>) :
        size \in {4, 8}, level \in {NO_MATCH, EXACT_MATCH}}

\* a decompiler varnode nothing in the ground truth overlaps
ExtraRecord == Record(Scalar(2, "INT", "STACK", NoVar), 0, NO_MATCH, <<>>)

\* the records of the flipped orientation: one per matched ground-truth
\* entity, and nf functions and nv varnodes only the decompiler has
Mirror(view, nf, nv) ==
    LET vrecs == Filter(view.vrecs, LAMBDA record : record.level # NO_MATCH)
                     \o [i \in 1..nv |-> ExtraRecord]
    IN  View(Counterparts(view.fns) \o [i \in 1..nf |-> FnRecord(20 + i, FALSE)],
             vrecs, Primitive(vrecs))

FlipComparisons ==
    {Comparison(View(fns, vrecs, Primitive(vrecs)),
                Mirror(View(fns, vrecs, Primitive(vrecs)), nf, nv)) :
        fns \in FnRecords(0, MaxFlipFns),
        vrecs \in SeqsUpTo(FlipRecords, MaxFlipRecs),
        nf \in 0..MaxExtra, nv \in 0..MaxExtra}

FlipFns ==
    {Fn("functions_missed"), Fn("functions_extraneous"),
     Fn("varnodes_missed"), Fn("varnodes_extraneous"),
     Fn("varnodes_missed(primitive=True)"), Fn("varnodes_extraneous(primitive=True)")}

NextFlip ==
    \/ \E cmp \in DOMAIN heap : Flip(cmp)
    \/ \E c \in FlipFns : \E cmp \in DOMAIN heap : Call(c, cmp)

SpecFlip == InitWith(FlipComparisons) /\ [][NextFlip]_vars

\* C3: on flip(c), functions_extraneous returns functions_missed(c), and
\* varnodes_extraneous returns varnodes_missed(c), at either granularity.
C3_ExtraneousOfFlipIsMissed ==
    \A c \in DOMAIN heap :
        (out.cmp \in DOMAIN heap /\ heap[out.cmp].flip_of = c) =>
            /\ Called("functions_extraneous")
                   => out.res = List(functions_missed(St, c).v)
            /\ Called("varnodes_extraneous")
                   => out.res = List(varnodes_missed(St, c, FALSE).v)
            /\ Called("varnodes_extraneous(primitive=True)")
                   => out.res = List(varnodes_missed(St, c, TRUE).v)

\* functions_extraneous has returned the missed function of c on flip(c), where
\* flip(c) itself misses none
C3_Witness ==
    /\ Called("functions_extraneous")
    /\ heap[out.cmp].flip_of = 1
    /\ out.res.items # <<>>
    /\ functions_missed(St, out.cmp).v = <<>>
    /\ varnodes_missed(St, 1, FALSE).v # varnodes_missed(St, out.cmp, FALSE).v

----------------------------------------------------------------------------
(* Normalisation of a compare level into a score.                          *)

\* the compare-level scales: dense integer ranges of at least two tiers
Scales ==
    {[start |-> s, stop |-> s + k, step |-> 1] : s \in 0..MaxStart, k \in 2..MaxLevels}

\* the levels of a scale and the averages of levels of it
InScale(r) ==
    UNION {{Rat(a, b) : a \in (r.start * b)..((r.stop - r.step) * b)} : b \in 1..MaxDen}

NextNormalize ==
    \E r \in Scales : \E x \in InScale(r) \cup {None} : Normalize(r, x)

SpecNormalize == InitWith({Comparison(EmptyView, EmptyView)}) /\ [][NextNormalize]_vars

\* C6: normalize maps the minimum of a scale to 0 and its maximum to 1, is
\* monotonic non-decreasing in the level, and stays inside [0, 1] on the range.
C6_NormalizeOntoUnitInterval ==
    (out.op = "normalize_range" /\ IsNum(out.args[2])) =>
        /\ out.args[2] = Num(out.args[1].start) => out.res = Num(0)
        /\ out.args[2] = Num(out.args[1].stop - out.args[1].step) => out.res = Num(1)
        /\ IsNum(out.res) /\ Le(Num(0), out.res) /\ Le(out.res, Num(1))
        /\ \A l \in RangeSet(out.args[1]) :
               /\ Le(Num(l), out.args[2])
                      => Le(normalize_range(out.args[1], Num(l)), out.res)
               /\ Le(out.args[2], Num(l))
                      => Le(out.res, normalize_range(out.args[1], Num(l)))

\* the maximum of a scale that does not start at 0 has been normalised to 1
C6_Witness ==
    /\ out.op = "normalize_range"
    /\ out.args[1].start > 0
    /\ out.args[2] = Num(out.args[1].stop - out.args[1].step)
    /\ out.res = Num(1)

----------------------------------------------------------------------------
(* Varnode counts per compare level.                                       *)

VarnodeRecords ==
    {Record(Scalar(size, IF size = 8 THEN "STRUCT" ELSE "INT", addrtype, NoVar),
            IF level = NO_MATCH THEN 0 ELSE size, level, <<>>) :
        size \in {4, 8}, level \in Levels, addrtype \in {"STACK", "REGISTER"}}

VarnodeComparisons ==
    {Comparison(View(<<>>, vrecs, Primitive(vrecs)), EmptyView) :
        vrecs \in SeqsUpTo(VarnodeRecords, MaxRecs)}

NextVarnodes ==
    \/ MakeMetrics
    \/ \E g \in InGroups({"varnodes", "varnodes_decomposed"}) :
           \E cmp \in DOMAIN heap : ComputeResults(g, cmp)

SpecVarnodes == InitWith(VarnodeComparisons) /\ [][NextVarnodes]_vars

\* the records of the comparison that pass the base filter
Comparable(cmp, primitive) ==
    Filter(IF primitive THEN heap[cmp].fwd.precs ELSE heap[cmp].fwd.vrecs,
           varnode_compare_record_base_filter)

NumLevels == Len(RangeSeq(VarnodeCompareLevel_range))

\* C7: in the whole and in the primitive varnodes group, the per-level matched
\* counts summed over all tiers equal the number of comparable records, which
\* is the value of the group's 'Ground truth varnodes' metric.
C7_LevelCountsSumToTruth ==
    (out.op = "compute_results"
        /\ groups[out.group].name \in {"varnodes", "varnodes_decomposed"}) =>
        /\ out.res.tag = "list"
        /\ groups[out.group].metrics[1].display_name = "Ground truth varnodes"
        /\ out.res.items[1] =
               Num(Len(Comparable(out.cmp,
                                  groups[out.group].name = "varnodes_decomposed")))
        /\ SumSeq(SubSeq(out.res.items, 2, 1 + NumLevels)) = out.res.items[1]

\* the primitive group has been computed for three comparable leaf records
\* spread over two levels
C7_Witness ==
    /\ out.op = "compute_results"
    /\ groups[out.group].name = "varnodes_decomposed"
    /\ out.res.items[1] = Num(3)
    /\ \E i, j \in 2..(1 + NumLevels) :
           i # j /\ out.res.items[i] # Num(0) /\ out.res.items[j] # Num(0)

----------------------------------------------------------------------------
(* Array comparisons.                                                      *)

LeftArrays ==
    {Varnode(40, "ARRAY", "STACK", NoVar, 10, 1),
     Varnode(0, "ARRAY", "STACK", NoVar, 0, 1),
     Varnode(24, "ARRAY", "STACK", NoVar, 6, 2),
     Varnode(40, "ARRAY", "REGISTER", NoVar, 10, 1)}

RightVarnodes ==
    {Varnode(32, "ARRAY", "STACK", NoVar, 8, 1),
     Varnode(48, "ARRAY", "STACK", NoVar, 12, 2),
     Scalar(4, "INT", "STACK", NoVar)}

ArrayPairs ==
    {Pair(right, level) :
        right \in RightVarnodes,
        level \in {DataTypeCompareLevel_range.start,
                   DataTypeCompareLevel_range.stop - DataTypeCompareLevel_range.step}}

ScalarRecord == Record(Scalar(4, "INT", "STACK", NoVar), 4, EXACT_MATCH, <<>>)

\* the record of a ground-truth array compared with the given decompiler varnodes
ArrayRecord(left, comparisons) ==
    Record(left, IF comparisons = <<>> THEN 0 ELSE left.size,
           IF comparisons = <<>> THEN NO_MATCH ELSE EXACT_MATCH, comparisons)

\* one array compared with up to MaxPairs varnodes
ArrayRecords ==
    {ArrayRecord(left, comparisons) :
        left \in LeftArrays, comparisons \in SeqsUpTo(ArrayPairs, MaxPairs)}

\* arrays compared with one varnode each, and scalars
PairedRecords ==
    {ArrayRecord(left, <<Pair(right, DataTypeCompareLevel_range.start)>>) :
        left \in LeftArrays, right \in RightVarnodes}
    \cup {ScalarRecord}

ArrayComparisons ==
    {Comparison(View(<<>>, vrecs, Primitive(vrecs)), EmptyView) :
        vrecs \in {<<record>> : record \in ArrayRecords}
                      \cup SeqsUpTo(PairedRecords, MaxRecs)}

PairFns ==
    {Fn("array_elements_error"), Fn("array_elements_error_ratio"),
     Fn("array_size_error"), Fn("array_size_error_ratio")}

ApplyPair(c, cmp2) ==
    CASE c.fn = "array_elements_error" -> array_elements_error(cmp2)
      [] c.fn = "array_elements_error_ratio" -> array_elements_error_ratio(cmp2)
      [] c.fn = "array_size_error" -> array_size_error(cmp2)
      [] c.fn = "array_size_error_ratio" -> array_size_error_ratio(cmp2)

\* f(cmp2) for the i-th array comparison of cmp, as the list comprehension of
\* _summarize_array_comparisons applies it
PairCall(c, cmp, i) ==
    /\ i \in DOMAIN upstream_array_comparisons(St, cmp)
    /\ out' = Out("pair", 0, i, c, cmp, <<upstream_array_comparisons(St, cmp)[i]>>,
                  ApplyPair(c, upstream_array_comparisons(St, cmp)[i]))
    /\ UNCHANGED <<heap, memo, amemo, upcalls, groups>>

NextArrays ==
    \/ \E c \in PairFns : \E cmp \in DOMAIN heap : \E i \in 1..(MaxRecs * MaxPairs) :
           PairCall(c, cmp, i)
    \/ \E cmp \in DOMAIN heap : Call(Fn("array_dimension_match_ratio"), cmp)

SpecArrays == InitWith(ArrayComparisons) /\ [][NextArrays]_vars

PairCalled(name) == out.op = "pair" /\ out.compute.fn = name

IsExamplePair(cmp2) ==
    /\ cmp2.left.num_elements = 10 /\ cmp2.left.size = 40
    /\ cmp2.right.num_elements = 8 /\ cmp2.right.size = 32

\* C8: the element-count and byte-size errors of an array pair are the absolute
\* differences and are >= 0, their ratios to the left value are >= 0 where the
\* left value is not zero, the dimension-match ratio of a non-empty set of
\* array comparisons is in [0, 1]; (10, 40) against (8, 32) gives 2, 8, 0.2, 0.2.
C8_ArrayErrorsNonNegative ==
    /\ PairCalled("array_elements_error") =>
           /\ out.res = Num(Abs(out.args[1].left.num_elements
                                    - out.args[1].right.num_elements))
           /\ Le(Num(0), out.res)
           /\ IsExamplePair(out.args[1]) => out.res = Num(2)
    /\ PairCalled("array_size_error") =>
           /\ out.res = Num(Abs(out.args[1].left.size - out.args[1].right.size))
           /\ Le(Num(0), out.res)
           /\ IsExamplePair(out.args[1]) => out.res = Num(8)
    /\ (PairCalled("array_elements_error_ratio")
            /\ out.args[1].left.num_elements # 0) =>
           /\ IsNum(out.res) /\ Le(Num(0), out.res)
           /\ out.res = Rat(Abs(out.args[1].left.num_elements
                                    - out.args[1].right.num_elements),
                            out.args[1].left.num_elements)
           /\ IsExamplePair(out.args[1]) => out.res = Rat(2, 10)
    /\ (PairCalled("array_size_error_ratio") /\ out.args[1].left.size # 0) =>
           /\ IsNum(out.res) /\ Le(Num(0), out.res)
           /\ out.res = Rat(Abs(out.args[1].left.size - out.args[1].right.size),
                            out.args[1].left.size)
           /\ IsExamplePair(out.args[1]) => out.res = Rat(2, 10)
    /\ (Called("array_dimension_match_ratio")
            /\ upstream_array_comparisons(St, out.cmp) # <<>>) =>
           IsNum(out.res) /\ Le(Num(0), out.res) /\ Le(out.res, Num(1))

\* the element-count error of a pair whose right side is the longer one
C8_Witness ==
    /\ PairCalled("array_elements_error")
    /\ out.args[1].left.num_elements < out.args[1].right.num_elements
    /\ out.res = Num(2)

----------------------------------------------------------------------------
(* Averages over what may be an empty set.                                 *)

AverageFns ==
    {Fn("varnodes_avg_compare_score"), Fn("lambda@209"),
     Fn("lambda@267"), Fn("lambda@272"), Fn("lambda@277"), Fn("lambda@282"),
     Fn("array_dimension_match_ratio"), Fn("array_subtype_avg_compare_score")}
    \cup {Lambda(name, NoLevel, metatype) :
             name \in {"lambda@188", "lambda@239"}, metatype \in {"INT", "STRUCT"}}

ArrayMeans ==
    {"lambda@267", "lambda@272", "lambda@277", "lambda@282",
     "array_dimension_match_ratio", "array_subtype_avg_compare_score"}

AverageComparisons ==
    {c \in VarnodeComparisons \cup ArrayComparisons : Len(c.fwd.vrecs) <= 1}
    \cup {Comparison(View(<<>>, vrecs, Primitive(vrecs)), EmptyView) :
              vrecs \in {<<r1, r2>> : r1 \in VarnodeRecords, r2 \in {ScalarRecord}}}

NextAverages == \E c \in AverageFns : \E cmp \in DOMAIN heap : Call(c, cmp)

SpecAverages == InitWith(AverageComparisons) /\ [][NextAverages]_vars

OfMetatype(records, metatype) ==
    Filter(records, LAMBDA record : record.varnode.metatype = metatype)

\* C10: an average over an empty underlying set is None and is never an error:
\* the varnode scores with no comparable records (overall or of the metatype),
\* the array means, dimension ratio and subtype score with no array comparisons.
C10_EmptyAverageIsNone ==
    /\ (Called("varnodes_avg_compare_score") /\ Comparable(out.cmp, FALSE) = <<>>)
           => out.res = None
    /\ (Called("lambda@209") /\ Comparable(out.cmp, TRUE) = <<>>)
           => out.res = None
    /\ (Called("lambda@188")
            /\ OfMetatype(Comparable(out.cmp, FALSE), out.compute.metatype) = <<>>)
           => out.res = None
    /\ (Called("lambda@239")
            /\ OfMetatype(Comparable(out.cmp, TRUE), out.compute.metatype) = <<>>)
           => out.res = None
    /\ (out.op = "call" /\ out.compute.fn \in ArrayMeans
            /\ upstream_array_comparisons(St, out.cmp) = <<>>)
           => out.res = None

\* the score of a metatype none of the comparable records has
C10_Witness ==
    /\ Called("lambda@188")
    /\ Comparable(out.cmp, FALSE) # <<>>
    /\ OfMetatype(Comparable(out.cmp, FALSE), out.compute.metatype) = <<>>
    /\ out.res = None

----------------------------------------------------------------------------
(* Metric objects.                                                         *)

ComputeFns == {Fn("bytes_truth"), Fn("bytes_found")}

DisplayNames == {"a", "b"}

\* the Metric objects that exist
Metrics == {groups[g].metrics[i] : <<g, i>> \in
               {<<g, i>> \in (DOMAIN groups) \X (1..MaxMetrics) :
                    i \in DOMAIN groups[g].metrics}}

NextMetric ==
    \/ NewGroup("custom")
    \/ \E g \in DOMAIN groups : \E display_name \in DisplayNames :
           \E compute \in ComputeFns : MkAddMetric(g, display_name, compute)
    \/ \E g \in DOMAIN groups : \E metric \in Metrics : AddMetric(g, metric)

SpecMetric == InitWith({Comparison(EmptyView, EmptyView)}) /\ [][NextMetric]_vars

\* C9: two Metric objects are equal and have the same hash if and only if their
\* compute functions are equal, whatever their display names.
C9_MetricEqualityByCompute ==
    \A m1, m2 \in Metrics :
        (Metric_eq(m1, m2) /\ Metric_hash(m1) = Metric_hash(m2))
            <=> (m1.compute = m2.compute)

----------------------------------------------------------------------------
(* The registry on a comparison, its flip and the flip of its flip.        *)

\* comparisons whose whole and primitive records differ, with and without
\* functions, eligible records and array comparisons
Views ==
    {View(fns, vrecs, Primitive(vrecs)) :
        fns \in {<<>>, <<FnRecord(1, TRUE), FnRecord(2, FALSE)>>},
        vrecs \in {<<>>,
                   <<Record(Scalar(8, "STRUCT", "STACK", NoVar), 12, EXACT_MATCH, <<>>),
                     Record(Scalar(4, "INT", "STACK", NoVar), 0, NO_MATCH, <<>>)>>,
                   <<Record(Varnode(40, "ARRAY", "STACK", NoVar, 10, 1), 32, EXACT_MATCH,
                            <<Pair(Varnode(32, "ARRAY", "STACK", NoVar, 8, 1),
                                   DataTypeCompareLevel_range.start)>>),
                     Record(Scalar(4, "FLOAT", "REGISTER", NoVar), 4, EXACT_MATCH, <<>>)>>}}

Comparisons == {Comparison(view, Mirror(view, 1, 1)) : view \in Views}

\* the object cmp was flipped from twice, 0 if there is none
FlipFlipOf(cmp) ==
    IF cmp \in DOMAIN heap /\ heap[cmp].flip_of # 0
    THEN heap[heap[cmp].flip_of].flip_of
    ELSE 0

\* the caller builds the registry, flips comparisons, and computes groups on
\* a comparison and on the flip of its flip
Next ==
    \/ MakeMetrics
    \/ \E cmp \in DOMAIN heap : Flip(cmp)
    \/ \E g \in DOMAIN groups :
           \E cmp \in {o \in DOMAIN heap : heap[o].flip_of = 0 \/ FlipFlipOf(o) # 0} :
               ComputeResults(g, cmp)

Spec == InitWith(Comparisons) /\ [][Next]_vars

\* the interpreter state with empty memo caches
Fresh == [St EXCEPT !.memo = <<>>, !.amemo = <<>>, !.upcalls = <<>>]

\* C4: whatever the memo caches hold, every metric of every group of the
\* registry gives on flip(flip(c)) the result it gives on c.
C4_FlipFlipSameResults ==
    out.op = "compute_results" =>
        /\ FlipFlipOf(out.cmp) # 0 =>
               /\ out.res = compute_results(groups[out.group], St, FlipFlipOf(out.cmp)).v
               /\ out.res = compute_results(groups[out.group], Fresh, FlipFlipOf(out.cmp)).v
        /\ \A o \in DOMAIN heap :
               FlipFlipOf(o) = out.cmp =>
                   out.res = compute_results(groups[out.group], St, o).v

\* a group has been computed on flip(flip(c)) after c's cache was populated at
\* the other granularity, and the whole and primitive records of c differ
C4_Witness ==
    /\ out.op = "compute_results"
    /\ groups[out.group].name = "varnodes"
    /\ FlipFlipOf(out.cmp) # 0
    /\ CacheKey(FlipFlipOf(out.cmp), Keyword(TRUE)) \in DOMAIN memo
    /\ CacheKey(FlipFlipOf(out.cmp), Keyword(FALSE)) \notin DOMAIN memo
    /\ out.res.tag = "list"
    /\ out.res.items[1] # Num(Len(Comparable(out.cmp, TRUE)))

----------------------------------------------------------------------------
(* The array group of the registry.                                        *)

NextArrayMetrics ==
    \/ MakeMetrics
    \/ \E g \in InGroups({"array_comparisons"}) :
           \E i \in DOMAIN groups[g].metrics : \E cmp \in DOMAIN heap :
               MetricCall(g, i, cmp)

SpecArrayMetrics == InitWith(ArrayComparisons) /\ [][NextArrayMetrics]_vars

\* some array comparison of cmp has a ground-truth side without elements
HasEmptyLeft(cmp) ==
    \E i \in DOMAIN upstream_array_comparisons(St, cmp) :
        upstream_array_comparisons(St, cmp)[i].left.num_elements = 0

\* some array comparison of cmp has a ground-truth side of size 0
HasZeroSizeLeft(cmp) ==
    \E i \in DOMAIN upstream_array_comparisons(St, cmp) :
        upstream_array_comparisons(St, cmp)[i].left.size = 0

\* C11: with a ground-truth array of 0 elements or of size 0 among the array
\* comparisons, the error-ratio metrics of the array group, and with no
\* ground-truth arrays its 'inferred as array fraction' metric, return an
\* explicit undefined result: they neither raise nor return 0.
C11_ArrayUndefinedReturned ==
    /\ (MetricNamed("array_comparisons", "Array length (elements) average error ratio")
            /\ HasEmptyLeft(out.cmp))
           => (~IsRaise(out.res) /\ out.res # Num(0))
    /\ (MetricNamed("array_comparisons", "Array size (bytes) average error ratio")
            /\ HasZeroSizeLeft(out.cmp))
           => (~IsRaise(out.res) /\ out.res # Num(0))
    /\ (MetricNamed("array_comparisons", "Array varnodes inferred as array fraction")
            /\ OfMetatype(Comparable(out.cmp, FALSE), "ARRAY") = <<>>)
           => (~IsRaise(out.res) /\ out.res # Num(0))

----------------------------------------------------------------------------
(* Memoisation of the selections.                                          *)

\* C12: over any sequence of metric calls the upstream record selection is
\* invoked at most once per (comparison, granularity) and the pair selection at
\* most once per comparison, and what the caches hold is what a fresh
\* selection returns.
C12_SelectedAtMostOnce ==
    /\ \A k \in DOMAIN upcalls : upcalls[k] <= 1
    /\ \A key \in DOMAIN memo : memo[key] = upstream_select(St, key.cmp, key.form)
    /\ \A cmp \in DOMAIN amemo : amemo[cmp] = upstream_array_comparisons(St, cmp)

----------------------------------------------------------------------------
(* Building groups and computing them.                                     *)

\* compute functions a caller registers: a count and a fraction
RegistryFns == {Fn("bytes_truth"), Fn("lambda@138")}

\* a comparison of empty programs and one with functions and records
RegistryComparisons ==
    {Comparison(EmptyView, EmptyView)}
    \cup {c \in Comparisons : /\ c.fwd.fns # <<>>
                              /\ c.fwd.vrecs # <<>>
                              /\ c.fwd.vrecs[1].varnode.metatype = "STRUCT"}

\* the caller builds the registry or groups of its own, and computes groups
NextRegistry ==
    \/ MakeMetrics
    \/ NewGroup("custom")
    \/ \E g \in DOMAIN groups : \E compute \in RegistryFns :
           MkAddMetric(g, "custom metric", compute)
    \/ \E g \in DOMAIN groups : \E metric \in Metrics : AddMetric(g, metric)
    \/ \E g \in DOMAIN groups : \E cmp \in DOMAIN heap : ComputeResults(g, cmp)

SpecRegistry == InitWith(RegistryComparisons) /\ [][NextRegistry]_vars

BuildOps == {"make_metrics", "MetricsGroup", "mk_add_metric", "add_metric"}

\* what the metrics of the computed group give, one by one, on the comparison
ValueOf(i) == Metric_call(groups[out.group].metrics[i], St, out.cmp).v

\* compute_results gives one value per metric in insertion order, all from the
\* comparison it was called with, unless a metric raised
OneValuePerMetric ==
    out.op = "compute_results" =>
        IF \E i \in DOMAIN groups[out.group].metrics : IsRaise(ValueOf(i))
        THEN IsRaise(out.res)
        ELSE /\ out.res.tag = "list"
             /\ Len(out.res.items) = Len(groups[out.group].metrics)
             /\ \A i \in DOMAIN out.res.items : out.res.items[i] = ValueOf(i)

\* building selects and computes nothing, computing leaves the groups alone
LazyStep ==
    /\ out'.op \in BuildOps => UNCHANGED <<heap, memo, amemo, upcalls>>
    /\ out'.op = "compute_results" => groups' = groups

----------------------------------------------------------------------------
(* The metrics make_metrics builds in its loops.                           *)

\* comparisons whose records are all eligible, of two metatypes and any level
ClosureComparisons ==
    {c \in VarnodeComparisons :
        \A i \in DOMAIN c.fwd.vrecs : c.fwd.vrecs[i].varnode.addrtype = "STACK"}

\* the name make_metrics gives the group of a metatype and granularity
GroupName(metatype, primitive) ==
    IF metatype = NoMetaType
    THEN IF primitive THEN "varnodes_decomposed" ELSE "varnodes"
    ELSE (IF primitive THEN "varnodes_decomposed_metatype_" ELSE "varnodes_metatype_")
             \o metatype

LoopGroups ==
    {GroupName(metatype, primitive) :
        metatype \in {NoMetaType} \cup {MetaTypes[i] : i \in DOMAIN MetaTypes},
        primitive \in BOOLEAN}

NextClosures ==
    \/ MakeMetrics
    \/ \E g \in InGroups(LoopGroups) : \E cmp \in DOMAIN heap : ComputeResults(g, cmp)

SpecClosures == InitWith(ClosureComparisons) /\ [][NextClosures]_vars

\* the comparable records of cmp at this level, of this metatype if one is given
AtLevel(cmp, primitive, level, metatype) ==
    Filter(Comparable(cmp, primitive),
           LAMBDA record : /\ record.level = level
                           /\ metatype # NoMetaType => record.varnode.metatype = metatype)

\* C14: the metric make_metrics creates in the iteration for tier L (and
\* metatype M) counts the comparable records whose level is exactly L (and
\* whose metatype is M), not those of the loop's last tier or metatype.
C14_ClosuresCaptureIteration ==
    out.op = "compute_results" =>
        \A metatype \in {NoMetaType} \cup {MetaTypes[i] : i \in DOMAIN MetaTypes} :
            \A primitive \in BOOLEAN :
                groups[out.group].name = GroupName(metatype, primitive) =>
                    /\ out.res.tag = "list"
                    /\ \A i \in 1..NumLevels :
                           out.res.items[1 + i] =
                               Num(Len(AtLevel(out.cmp, primitive,
                                               RangeSeq(VarnodeCompareLevel_range)[i],
                                               metatype)))

\* the INT group has counted an INT record at the first tier and none at the
\* last, where a STRUCT record is comparable as well
C14_Witness ==
    /\ out.op = "compute_results"
    /\ groups[out.group].name = GroupName("INT", FALSE)
    /\ out.res.items[2] = Num(1)
    /\ out.res.items[1 + NumLevels] = Num(0)
    /\ Len(OfMetatype(Comparable(out.cmp, FALSE), "STRUCT")) = 1

----------------------------------------------------------------------------
(* Found and missed functions.                                             *)

\* programs of up to MaxScenarioFns functions, any of them matched
FunctionComparisons ==
    {Comparison(View(fns, <<>>, <<>>), View(Counterparts(fns), <<>>, <<>>)) :
        fns \in FnRecords(0, MaxScenarioFns)}

FunctionFns ==
    {Fn("functions_truth"), Fn("functions_found"), Fn("functions_missed"),
     Fn("lambda@138")}

NextFunctions == \E c \in FunctionFns : \E cmp \in DOMAIN heap : Call(c, cmp)

SpecFunctions == InitWith(FunctionComparisons) /\ [][NextFunctions]_vars

Occurrences(s, x) == Cardinality({i \in DOMAIN s : s[i] = x})

\* found and missed are disjoint and hold each function of truth exactly once
Partition(found, missed, truth) ==
    /\ \A i \in DOMAIN found : \A j \in DOMAIN missed : found[i] # missed[j]
    /\ \A i \in DOMAIN truth : Occurrences(found \o missed, truth[i]) = 1
    /\ Len(found) + Len(missed) = Len(truth)

\* 5 ground-truth functions of which 3 are matched
IsScenario(cmp) ==
    /\ Len(heap[cmp].fwd.fns) = 5
    /\ Len(Filter(heap[cmp].fwd.fns, LAMBDA record : record.is_comparison)) = 3

\* C15: functions_found and functions_missed partition the ground-truth
\* functions, so their lengths add up to that of functions_truth; with 5
\* functions of which 3 are matched, found has 3, missed 2, the fraction is 0.6.
C15_FoundAndMissedPartitionTruth ==
    /\ Called("functions_found") =>
           /\ Partition(out.res.items, functions_missed(St, out.cmp).v,
                        functions_truth(St, out.cmp).v)
           /\ IsScenario(out.cmp) => Len(out.res.items) = 3
    /\ Called("functions_missed") =>
           /\ Partition(functions_found(St, out.cmp).v, out.res.items,
                        functions_truth(St, out.cmp).v)
           /\ IsScenario(out.cmp) => Len(out.res.items) = 2
    /\ Called("functions_truth") =>
           Partition(functions_found(St, out.cmp).v, functions_missed(St, out.cmp).v,
                     out.res.items)
    /\ (Called("lambda@138") /\ IsScenario(out.cmp)) => out.res = Rat(6, 10)

\* functions_missed has returned the 2 unmatched of 5 functions
C15_Witness ==
    /\ Called("functions_missed")
    /\ IsScenario(out.cmp)
    /\ Len(out.res.items) = 2
    /\ Len(functions_found(St, out.cmp).v) = 3

============================================================================
